---------------------------- MODULE Spec2Model ----------------------------
(***************************************************************************)
(* Model of main.py of singbox-rules: the line normaliser _strip_comment,  *)
(* the classifier parse_clash_or_plain, the serialiser build_ruleset_json  *)
(* and the group loop of main.                                             *)
(*                                                                         *)
(* A Python str is a sequence of one-character strings.  A fetched text    *)
(* is the pair of what the two library calls made on it return:            *)
(* text.lines is text.splitlines() and text.yaml is yaml.safe_load(text)   *)
(* (or the fact that it raised).                                           *)
(***************************************************************************)
EXTENDS Naturals, Integers, Sequences, FiniteSets, TLC

VARIABLES
    pc,          \* main: "loop", "fetch", "failed", "done"; a helper: "call", "returned"
    sources,     \* the mapping loaded from source.yml, in iteration order
    gi,          \* index in sources of the group the for loop is at
    ui,          \* index in urls of the next source of the group
    all_domain,  \* main's accumulators of the current group
    all_suffix,
    all_cidr,
    fetched,     \* the texts fetch() returned for the current group, in order
    files,       \* output/json/<tag>.json written in this run
    meta,        \* main's meta["sets"]
    index,       \* output/index.json written in this run (NotWritten before)
    text,        \* argument of the last call of parse_clash_or_plain
    parsed,      \* what that call returned
    raw,         \* argument of the last call of _strip_comment
    stripped     \* what that call returned

vars == <<pc, sources, gi, ui, all_domain, all_suffix, all_cidr, fetched,
          files, meta, index, text, parsed, raw, stripped>>

mainVars == <<pc, sources, gi, ui, all_domain, all_suffix, all_cidr, fetched,
              files, meta, index>>

-----------------------------------------------------------------------------
(* Bounds of the inputs *)

\* longest raw line given to _strip_comment on its own
MaxRaw == 5
\* longest free tail appended to a rule head in a generated line
MaxTail == 3
\* most sources in one group
MaxUrls == 2

-----------------------------------------------------------------------------
(* Python str operations used by the code *)

\* str.isspace of one character; the blank and the tab stand for the
\* characters str.strip() removes
IsSpace(c) == c \in {" ", "\t"}

RECURSIVE LStrip(_)
LStrip(s) ==
    IF s # <<>> /\ IsSpace(Head(s)) THEN LStrip(Tail(s)) ELSE s

RECURSIVE RStrip(_)
RStrip(s) ==
    IF s # <<>> /\ IsSpace(s[Len(s)])
    THEN RStrip(SubSeq(s, 1, Len(s) - 1))
    ELSE s

\* str.strip()
Strip(s) == RStrip(LStrip(s))

\* sub occurs in s at the 0-based index i
OccursAt(s, sub, i) ==
    /\ i + Len(sub) <= Len(s)
    /\ \A k \in 1..Len(sub) : s[i + k] = sub[k]

\* str.find(sub): the lowest 0-based index of sub in s, -1 when there is none
Find(s, sub) ==
    LET hits == {i \in 0..Len(s) : OccursAt(s, sub, i)}
    IN  IF hits = {} THEN -1
        ELSE CHOOSE i \in hits : \A j \in hits : i <= j

\* s[:idx]
Prefix(s, idx) == SubSeq(s, 1, idx)

\* c in s, for a one-character c
Contains(s, c) == \E i \in 1..Len(s) : s[i] = c

\* str.startswith(p)
StartsWith(s, p) == OccursAt(s, p, 0)

\* str.split(sep) for a one-character sep: always at least one part
RECURSIVE Split(_, _)
Split(s, sep) ==
    LET idx == Find(s, <<sep>>)
    IN  IF idx = -1 THEN <<s>>
        ELSE <<Prefix(s, idx)>> \o Split(SubSeq(s, idx + 2, Len(s)), sep)

LowerLetters ==
    <<"a","b","c","d","e","f","g","h","i","j","k","l","m",
      "n","o","p","q","r","s","t","u","v","w","x","y","z">>
UpperLetters ==
    <<"A","B","C","D","E","F","G","H","I","J","K","L","M",
      "N","O","P","Q","R","S","T","U","V","W","X","Y","Z">>

UpperChar(c) ==
    IF \E i \in 1..26 : LowerLetters[i] = c
    THEN UpperLetters[CHOOSE i \in 1..26 : LowerLetters[i] = c]
    ELSE c

\* str.upper()
Upper(s) == [i \in 1..Len(s) |-> UpperChar(s[i])]

Digits == {"0","1","2","3","4","5","6","7","8","9"}

\* \d{lo,hi} matched against the whole of s
DigitRun(s, lo, hi) ==
    /\ Len(s) >= lo
    /\ Len(s) <= hi
    /\ \A i \in 1..Len(s) : s[i] \in Digits

\* re.match(r"^\d{1,3}(\.\d{1,3}){3}/\d{1,2}$", line)
MatchesCidr(line) ==
    LET halves == Split(line, "/")
    IN  /\ Len(halves) = 2
        /\ DigitRun(halves[2], 1, 2)
        /\ LET octets == Split(halves[1], ".")
           IN  /\ Len(octets) = 4
               /\ \A i \in 1..4 : DigitRun(octets[i], 1, 3)

\* code point of the characters the inputs are made of
CodePoint(c) ==
    CASE c = "\t" -> 9
      [] c = " " -> 32
      [] c = "#" -> 35
      [] c = "'" -> 39
      [] c = "," -> 44
      [] c = "-" -> 45
      [] c = "." -> 46
      [] c = "/" -> 47
      [] c \in Digits ->
            48 + (CHOOSE d \in 0..9 :
                    <<"0","1","2","3","4","5","6","7","8","9">>[d + 1] = c)
      [] c = ":" -> 58
      [] c = ";" -> 59
      [] \E i \in 1..26 : UpperLetters[i] = c ->
            64 + (CHOOSE i \in 1..26 : UpperLetters[i] = c)
      [] \E i \in 1..26 : LowerLetters[i] = c ->
            96 + (CHOOSE i \in 1..26 : LowerLetters[i] = c)

\* a < b for two str: Python compares code point by code point, a proper
\* prefix being the smaller
RECURSIVE StrLess(_, _)
StrLess(a, b) ==
    IF b = <<>> THEN FALSE
    ELSE IF a = <<>> THEN TRUE
    ELSE IF Head(a) = Head(b) THEN StrLess(Tail(a), Tail(b))
    ELSE CodePoint(Head(a)) < CodePoint(Head(b))

\* set(xs)
ToSet(xs) == {xs[i] : i \in 1..Len(xs)}

\* sorted(S) of a set of str
RECURSIVE Sorted(_)
Sorted(S) ==
    IF S = {} THEN <<>>
    ELSE LET m == CHOOSE x \in S : \A y \in S \ {x} : StrLess(x, y)
         IN  <<m>> \o Sorted(S \ {m})

\* list(set(xs)) as a faulty variant of sorted(set(xs)): distinct, in first-seen order
RECURSIVE SortedSet_unsorted(_)
SortedSet_unsorted(xs) ==
    IF xs = <<>> THEN <<>>
    ELSE LET init == SubSeq(xs, 1, Len(xs) - 1)
             last == xs[Len(xs)]
         IN  IF last \in ToSet(init) THEN SortedSet_unsorted(init)
             ELSE Append(SortedSet_unsorted(init), last)

\* sorted(set(xs))
SortedSet(xs) == Sorted(ToSet(xs))

-----------------------------------------------------------------------------
(* _strip_comment *)

\* one pass of the for loop: cut at the first occurrence of sep, if any
CutAt(line, sep) ==
    LET idx == Find(line, sep)
    IN  IF idx # -1 THEN Strip(Prefix(line, idx)) ELSE line

_strip_comment(line0) ==
    LET line == Strip(line0)
    IN  IF line = <<>> THEN <<>>
        ELSE Strip(CutAt(CutAt(CutAt(line, <<" ", "#">>),
                               <<" ", ";">>),
                         <<" ", "/", "/">>))

-----------------------------------------------------------------------------
(* The two library calls parse_clash_or_plain makes on its argument *)

\* yaml.safe_load(text): kind "error" when it raised, "dict" for a mapping
\* (fields: its <<key, value>> pairs, a value being [isList, items]), and
\* "other" for any other document (a scalar, a list, None)
safe_load(t) == t.yaml

\* text.splitlines()
splitlines(t) == t.lines

\* str(x) of an element of a YAML list: a string is itself, null is None
Str(x) == IF x.isStr THEN x.s ELSE <<"N", "o", "n", "e">>

payloadKey == <<"p", "a", "y", "l", "o", "a", "d">>

\* isinstance(y, dict) and "payload" in y and isinstance(y["payload"], list)
HasPayload(y) ==
    /\ y.kind = "dict"
    /\ \E i \in 1..Len(y.fields) :
           y.fields[i][1] = payloadKey /\ y.fields[i][2].isList

\* y["payload"]
PayloadOf(y) ==
    y.fields[CHOOSE i \in 1..Len(y.fields) : y.fields[i][1] = payloadKey][2].items

\* [str(x).strip() for x in payload if str(x).strip()]
RECURSIVE PayloadLines(_)
PayloadLines(items) ==
    IF items = <<>> THEN <<>>
    ELSE LET e == Strip(Str(Head(items)))
         IN  (IF e # <<>> THEN <<e>> ELSE <<>>) \o PayloadLines(Tail(items))

\* faulty variant: the payload is detected and then not used
EntryLines_ignorePayload(t) == splitlines(t)

\* faulty variant: a YAML error ends the parse with no entries instead of falling back
EntryLines_errorEmpty(t) ==
    IF safe_load(t).kind = "error" THEN <<>>
    ELSE IF HasPayload(safe_load(t))
    THEN PayloadLines(PayloadOf(safe_load(t)))
    ELSE splitlines(t)

\* the entry sequence the for loop runs over (lines 48-61)
EntryLines(t) ==
    IF HasPayload(safe_load(t))
    THEN PayloadLines(PayloadOf(safe_load(t)))
    ELSE splitlines(t)

-----------------------------------------------------------------------------
(* parse_clash_or_plain *)

httpPrefix == <<"h", "t", "t", "p">>
tDOMAIN == <<"D", "O", "M", "A", "I", "N">>
tDOMAIN_SUFFIX == <<"D", "O", "M", "A", "I", "N", "-", "S", "U", "F", "F", "I", "X">>
tIP_CIDR == <<"I", "P", "-", "C", "I", "D", "R">>
tIP_CIDR6 == <<"I", "P", "-", "C", "I", "D", "R", "6">>

\* [p.strip() for p in line.split(",")]
Parts(line) ==
    LET ps == Split(line, ",")
    IN  [i \in 1..Len(ps) |-> Strip(ps[i])]

\* line 69: the entry is read as TYPE,VALUE
IsTypeValue(line) == Contains(line, ",") /\ ~StartsWith(line, httpPrefix)

\* faulty variant: the value is the last field instead of the second
TypeValueRule_lastField(acc, line) ==
    LET parts == Parts(line)
        rule_type == Upper(parts[1])
        value == IF Len(parts) > 1 THEN parts[Len(parts)] ELSE <<>>
    IN  IF rule_type = tDOMAIN
        THEN IF value # <<>>
             THEN [acc EXCEPT !.domains = Append(@, value)] ELSE acc
        ELSE IF rule_type = tDOMAIN_SUFFIX
        THEN IF value # <<>>
             THEN [acc EXCEPT !.suffixes = Append(@, value)] ELSE acc
        ELSE IF rule_type \in {tIP_CIDR, tIP_CIDR6}
        THEN IF value # <<>>
             THEN [acc EXCEPT !.cidrs = Append(@, value)] ELSE acc
        ELSE acc

\* lines 70-86
TypeValueRule(acc, line) ==
    LET parts == Parts(line)
        rule_type == Upper(parts[1])
        value == IF Len(parts) > 1 THEN parts[2] ELSE <<>>
    IN  IF rule_type = tDOMAIN
        THEN IF value # <<>>
             THEN [acc EXCEPT !.domains = Append(@, value)] ELSE acc
        ELSE IF rule_type = tDOMAIN_SUFFIX
        THEN IF value # <<>>
             THEN [acc EXCEPT !.suffixes = Append(@, value)] ELSE acc
        ELSE IF rule_type \in {tIP_CIDR, tIP_CIDR6}
        THEN IF value # <<>>
             THEN [acc EXCEPT !.cidrs = Append(@, value)] ELSE acc
        ELSE acc

\* line 93
IsPlainDomain(line) ==
    Contains(line, ".") /\ ~Contains(line, " ") /\ ~Contains(line, "/")

\* faulty variant: a plain domain line is filed as an exact domain
PlainRule_asDomain(acc, line) ==
    IF MatchesCidr(line)
    THEN [acc EXCEPT !.cidrs = Append(@, line)]
    ELSE IF IsPlainDomain(line)
    THEN [acc EXCEPT !.domains = Append(@, line)]
    ELSE acc

\* lines 88-96
PlainRule(acc, line) ==
    IF MatchesCidr(line)
    THEN [acc EXCEPT !.cidrs = Append(@, line)]
    ELSE IF IsPlainDomain(line)
    THEN [acc EXCEPT !.suffixes = Append(@, line)]
    ELSE acc

\* faulty variant: the continue of line 86 is missing, so an entry of an unsupported
\* type goes on to the plain-line rules
ProcessLine_fallThrough(acc, rawLine) ==
    LET line == _strip_comment(rawLine)
    IN  IF line = <<>> THEN acc
        ELSE IF IsTypeValue(line)
                /\ Upper(Parts(line)[1]) \in
                      {tDOMAIN, tDOMAIN_SUFFIX, tIP_CIDR, tIP_CIDR6}
        THEN TypeValueRule(acc, line)
        ELSE PlainRule(acc, line)

\* one pass of the for loop of lines 63-96
ProcessLine(acc, rawLine) ==
    LET line == _strip_comment(rawLine)
    IN  IF line = <<>> THEN acc
        ELSE IF IsTypeValue(line) THEN TypeValueRule(acc, line)
        ELSE PlainRule(acc, line)

RECURSIVE ProcessLines(_, _)
ProcessLines(acc, lines) ==
    IF lines = <<>> THEN acc
    ELSE ProcessLines(ProcessLine(acc, Head(lines)), Tail(lines))

NoRules == [domains |-> <<>>, suffixes |-> <<>>, cidrs |-> <<>>]

\* lines 98-101
Dedup(acc) ==
    [domains |-> SortedSet(acc.domains),
     suffixes |-> SortedSet(acc.suffixes),
     cidrs |-> SortedSet(acc.cidrs)]

parse_clash_or_plain(t) == Dedup(ProcessLines(NoRules, EntryLines(t)))

-----------------------------------------------------------------------------
(* Inputs: raw lines and source texts *)

SeqsUpTo(S, n) == UNION {[1..k -> S] : k \in 0..n}

\* lines given to _strip_comment on its own
RawLines == SeqsUpTo({"a", " ", "\t", "#", ";", "/"}, MaxRaw)

tDOMAIN_KEYWORD == <<"D", "O", "M", "A", "I", "N", "-", "K", "E", "Y", "W", "O", "R", "D">>
cidrLine == <<"1", ".", "2", ".", "3", ".", "0", "/", "2", "4">>

RuleHeads ==
    {<<>>, tDOMAIN, <<"D", "o", "m", "a", "i", "n">>, tDOMAIN_SUFFIX,
     <<" ">> \o tIP_CIDR, tIP_CIDR6, tDOMAIN_KEYWORD, httpPrefix,
     SubSeq(cidrLine, 1, 9)}

\* a rule head followed by every short tail of separators and letters
RichLines ==
    {h \o t : h \in RuleHeads,
              t \in SeqsUpTo({",", " ", "\t", "#", ".", "/", "a", "4"}, MaxTail)}

l_b_a == <<"b", ".", "a">>
l_a_b == <<"a", ".", "b">>
l_B_a == <<"B", ".", "a">>

SmallLines ==
    {tDOMAIN \o <<",">> \o l_b_a,
     tDOMAIN \o <<",">> \o l_B_a,
     tDOMAIN_SUFFIX \o <<",">> \o l_a_b,
     tIP_CIDR \o <<",">> \o cidrLine,
     tDOMAIN_KEYWORD \o <<",">> \o l_a_b,
     l_a_b, l_b_a, cidrLine,
     <<"#", " ">> \o l_a_b,
     <<" ">> \o l_a_b \o <<" ", "#", "c">>}

\* a text that is no YAML mapping: safe_load raises or returns another value
PlainText(lines, kind) ==
    [lines |-> lines, yaml |-> [kind |-> kind, fields |-> <<>>]]

StrItem(s) == [isStr |-> TRUE, s |-> s]
NullItem == [isStr |-> FALSE, s |-> <<>>]

RECURSIVE RenderItems(_)
RenderItems(items) ==
    IF items = <<>> THEN <<>>
    ELSE <<(<<" ", " ", "-", " ">> \o
            (IF Head(items).isStr
             THEN <<"'">> \o Head(items).s \o <<"'">>
             ELSE <<"n", "u", "l", "l">>))>> \o RenderItems(Tail(items))

\* the lines of a block-style YAML mapping
RECURSIVE RenderFields(_)
RenderFields(fields) ==
    IF fields = <<>> THEN <<>>
    ELSE LET f == Head(fields)
         IN  (IF f[2].isList
              THEN <<f[1] \o <<":">>>> \o RenderItems(f[2].items)
              ELSE <<f[1] \o <<":", " ", "x">>>>) \o RenderFields(Tail(fields))

\* a text that is a YAML mapping
DocText(fields) ==
    [lines |-> RenderFields(fields),
     yaml |-> [kind |-> "dict", fields |-> fields]]

rulesKey == <<"r", "u", "l", "e", "s">>

ListValue(items) == [isList |-> TRUE, items |-> items]
ScalarValue == [isList |-> FALSE, items |-> <<>>]

SmallItems ==
    {StrItem(s) : s \in SmallLines} \cup {NullItem, StrItem(<<" ">>)}

DocTexts ==
    {DocText(<<<<k, v>>>>) :
        k \in {payloadKey, rulesKey},
        v \in {ScalarValue} \cup {ListValue(items) : items \in SeqsUpTo(SmallItems, 2)}}
    \cup {DocText(<<<<rulesKey, ListValue(<<StrItem(l_b_a)>>)>>,
                    <<payloadKey, ListValue(<<StrItem(l_a_b)>>)>>>>)}

EmptyText == PlainText(<<>>, "other")

\* texts given to parse_clash_or_plain on its own
ParseTexts ==
    {PlainText(<<l>>, k) : l \in RichLines, k \in {"error", "other"}}
    \cup {PlainText(<<a, b>>, "other") : a \in SmallLines, b \in SmallLines}
    \cup DocTexts
    \cup {EmptyText}

-----------------------------------------------------------------------------
(* The helpers called on their own *)

NotWritten == [written |-> FALSE, sets |-> {}]

Idle ==
    /\ sources = <<>>
    /\ gi = 1
    /\ ui = 1
    /\ all_domain = <<>>
    /\ all_suffix = <<>>
    /\ all_cidr = <<>>
    /\ fetched = <<>>
    /\ files = {}
    /\ meta = {}
    /\ index = NotWritten

InitStrip ==
    /\ Idle
    /\ pc = "call"
    /\ raw \in RawLines
    /\ stripped = <<>>
    /\ text = EmptyText
    /\ parsed = NoRules

\* the call _strip_comment(raw)
StripLine ==
    /\ pc = "call"
    /\ pc' = "returned"
    /\ stripped' = _strip_comment(raw)
    /\ UNCHANGED <<sources, gi, ui, all_domain, all_suffix, all_cidr, fetched,
                   files, meta, index, text, parsed, raw>>

SpecStrip == InitStrip /\ [][StripLine]_vars

InitParse ==
    /\ Idle
    /\ pc = "call"
    /\ text \in ParseTexts
    /\ parsed = NoRules
    /\ raw = <<>>
    /\ stripped = <<>>

\* the call parse_clash_or_plain(text)
ParseText ==
    /\ pc = "call"
    /\ pc' = "returned"
    /\ parsed' = parse_clash_or_plain(text)
    /\ UNCHANGED <<sources, gi, ui, all_domain, all_suffix, all_cidr, fetched,
                   files, meta, index, text, raw, stripped>>

SpecParse == InitParse /\ [][ParseText]_vars

-----------------------------------------------------------------------------
(* build_ruleset_json *)

\* faulty variant: the three objects are always emitted
build_ruleset_json_emitEmpty(domains, suffixes, cidrs) ==
    [version |-> 3,
     rules |-> <<[key |-> "domain", values |-> domains],
                 [key |-> "domain_suffix", values |-> suffixes],
                 [key |-> "ip_cidr", values |-> cidrs]>>]

build_ruleset_json(domains, suffixes, cidrs) ==
    [version |-> 3,
     rules |->
        (IF domains # <<>> THEN <<[key |-> "domain", values |-> domains]>>
                           ELSE <<>>)
        \o (IF suffixes # <<>>
            THEN <<[key |-> "domain_suffix", values |-> suffixes]>> ELSE <<>>)
        \o (IF cidrs # <<>> THEN <<[key |-> "ip_cidr", values |-> cidrs]>>
                            ELSE <<>>)]

-----------------------------------------------------------------------------
(* main, from line 144 on: sources is the mapping source.yml gave *)

Tags == <<"t1", "t2">>
Urls == <<"u1", "u2", "u3", "u4">>

\* a value of the mapping: a list of at most MaxUrls sources, or no list
SourceValues ==
    {[isList |-> FALSE, urls |-> <<>>]}
    \cup {[isList |-> TRUE, urls |-> SubSeq(Urls, 1, k)] :
             k \in 0..(IF MaxUrls < Len(Urls) THEN MaxUrls ELSE Len(Urls))}

\* the mappings of source.yml, as the sequence sources.items() runs over
SourceMaps ==
    {[i \in 1..Len(Tags) |-> [tag |-> Tags[i], val |-> v[i]]] :
        v \in [1..Len(Tags) -> SourceValues]}

\* the texts a fetch may return
MainTexts ==
    {EmptyText,
     PlainText(<<tDOMAIN \o <<",">> \o l_b_a, tDOMAIN \o <<",">> \o l_B_a>>,
               "other"),
     PlainText(<<l_b_a, tDOMAIN_SUFFIX \o <<",">> \o l_a_b>>, "error"),
     DocText(<<<<payloadKey,
                 ListValue(<<StrItem(l_a_b),
                             StrItem(tIP_CIDR \o <<",">> \o cidrLine)>>)>>>>),
     PlainText(<<cidrLine>>, "other"),
     PlainText(<<tDOMAIN \o <<",">> \o l_a_b>>, "other")}

Init ==
    /\ pc = "loop"
    /\ sources \in SourceMaps
    /\ gi = 1
    /\ ui = 1
    /\ all_domain = <<>>
    /\ all_suffix = <<>>
    /\ all_cidr = <<>>
    /\ fetched = <<>>
    /\ files = {}
    /\ meta = {}
    /\ index = NotWritten
    /\ text = EmptyText
    /\ parsed = NoRules
    /\ raw = <<>>
    /\ stripped = <<>>

\* line 147: isinstance(urls, list) and urls
IsSourceList(val) == val.isList /\ val.urls # <<>>

\* lines 146-148: a tag whose value is no list, or an empty one, is passed over
SkipGroup ==
    /\ pc = "loop"
    /\ gi <= Len(sources)
    /\ ~IsSourceList(sources[gi].val)
    /\ gi' = gi + 1
    /\ UNCHANGED <<pc, sources, ui, all_domain, all_suffix, all_cidr, fetched,
                   files, meta, index, text, parsed, raw, stripped>>

\* lines 146-152: the next group starts with empty accumulators
StartGroup ==
    /\ pc = "loop"
    /\ gi <= Len(sources)
    /\ IsSourceList(sources[gi].val)
    /\ pc' = "fetch"
    /\ ui' = 1
    /\ all_domain' = <<>>
    /\ all_suffix' = <<>>
    /\ all_cidr' = <<>>
    /\ fetched' = <<>>
    /\ UNCHANGED <<sources, gi, files, meta, index, text, parsed, raw, stripped>>

\* lines 154-159: one source is fetched, parsed and added
FetchSource ==
    /\ pc = "fetch"
    /\ ui <= Len(sources[gi].val.urls)
    /\ \E t \in MainTexts :
          LET r == parse_clash_or_plain(t)
          IN  /\ text' = t
              /\ parsed' = r
              /\ all_domain' = all_domain \o r.domains
              /\ all_suffix' = all_suffix \o r.suffixes
              /\ all_cidr' = all_cidr \o r.cidrs
              /\ fetched' = Append(fetched, t)
    /\ ui' = ui + 1
    /\ UNCHANGED <<pc, sources, gi, files, meta, index, raw, stripped>>

\* lines 105-106: requests.get or raise_for_status raises, and main with it
FetchFails ==
    /\ pc = "fetch"
    /\ ui <= Len(sources[gi].val.urls)
    /\ pc' = "failed"
    /\ UNCHANGED <<sources, gi, ui, all_domain, all_suffix, all_cidr, fetched,
                   files, meta, index, text, parsed, raw, stripped>>

\* json.dump to output/json/<tag>.json: a file of that name is replaced
WriteFile(fs, tag, rs) ==
    {f \in fs : f.tag # tag} \cup {[tag |-> tag, json |-> rs]}

\* meta["sets"][tag] = {...}
MetaRecord(tag, d, s, c, urls) ==
    [tag |-> tag, domain |-> Len(d), domain_suffix |-> Len(s),
     ip_cidr |-> Len(c), sources |-> urls]

\* faulty variant: the counts of the record are taken before the dedup
FinishGroup_countsBeforeDedup ==
    /\ pc = "fetch"
    /\ ui > Len(sources[gi].val.urls)
    /\ LET d == SortedSet(all_domain)
           s == SortedSet(all_suffix)
           c == SortedSet(all_cidr)
           tag == sources[gi].tag
       IN  /\ all_domain' = d
           /\ all_suffix' = s
           /\ all_cidr' = c
           /\ files' = WriteFile(files, tag, build_ruleset_json(d, s, c))
           /\ meta' = {m \in meta : m.tag # tag}
                        \cup {MetaRecord(tag, all_domain, all_suffix, all_cidr,
                                         sources[gi].val.urls)}
    /\ gi' = gi + 1
    /\ pc' = "loop"
    /\ UNCHANGED <<sources, ui, fetched, index, text, parsed, raw, stripped>>

\* lines 161-180: dedup, build, write the group's file, record it
FinishGroup ==
    /\ pc = "fetch"
    /\ ui > Len(sources[gi].val.urls)
    /\ LET d == SortedSet(all_domain)
           s == SortedSet(all_suffix)
           c == SortedSet(all_cidr)
           tag == sources[gi].tag
       IN  /\ all_domain' = d
           /\ all_suffix' = s
           /\ all_cidr' = c
           /\ files' = WriteFile(files, tag, build_ruleset_json(d, s, c))
           /\ meta' = {m \in meta : m.tag # tag}
                        \cup {MetaRecord(tag, d, s, c, sources[gi].val.urls)}
    /\ gi' = gi + 1
    /\ pc' = "loop"
    /\ UNCHANGED <<sources, ui, fetched, index, text, parsed, raw, stripped>>

\* lines 182-185: output/index.json
WriteIndex ==
    /\ pc = "loop"
    /\ gi > Len(sources)
    /\ index' = [written |-> TRUE, sets |-> meta]
    /\ pc' = "done"
    /\ UNCHANGED <<sources, gi, ui, all_domain, all_suffix, all_cidr, fetched,
                   files, meta, text, parsed, raw, stripped>>

Next ==
    \/ SkipGroup
    \/ StartGroup
    \/ FetchSource
    \/ FetchFails
    \/ FinishGroup
    \/ WriteIndex

Spec == Init /\ [][Next]_vars

-----------------------------------------------------------------------------
(* Vocabulary of the properties *)

Returned == pc = "returned"

\* the entries after normalisation: what the classifier is given
RECURSIVE Normalised(_)
Normalised(lines) ==
    IF lines = <<>> THEN <<>>
    ELSE LET l == _strip_comment(Head(lines))
         IN  (IF l # <<>> THEN <<l>> ELSE <<>>) \o Normalised(Tail(lines))

Entries(t) == Normalised(EntryLines(t))

\* the first comma-delimited field, trimmed and uppercased
TypeToken(line) == Upper(Strip(Split(line, ",")[1]))

\* the second comma-delimited field, trimmed; empty when there is none
ValueField(line) ==
    IF Len(Split(line, ",")) > 1 THEN Strip(Split(line, ",")[2]) ELSE <<>>

RecognisedTypes == {tDOMAIN, tDOMAIN_SUFFIX, tIP_CIDR, tIP_CIDR6}

CollectionOf(type) ==
    IF type = tDOMAIN THEN "domains"
    ELSE IF type = tDOMAIN_SUFFIX THEN "suffixes"
    ELSE "cidrs"

\* a result holding v in collection c and nothing else
Only(c, v) == [NoRules EXCEPT ![c] = <<v>>]

IsRecognisedRule(line) ==
    /\ Contains(line, ",")
    /\ TypeToken(line) \in RecognisedTypes
    /\ ValueField(line) # <<>>

\* the fields of a mapping whose key is payload and whose value is a list
PayloadListFields(y) ==
    IF y.kind # "dict" THEN {}
    ELSE {i \in 1..Len(y.fields) :
             y.fields[i][1] = payloadKey /\ y.fields[i][2].isList}

\* the fields of a mapping whose value is a list, whatever the key
AnyListFields(y) ==
    IF y.kind # "dict" THEN {}
    ELSE {i \in 1..Len(y.fields) : y.fields[i][2].isList}

\* what classifying the given entry sequence yields
ClassifiedFromEntries(lines) == Dedup(ProcessLines(NoRules, lines))

\* position i of v is a whitespace character followed by #, ; or //
IntroducerAfter(v, i) ==
    /\ i < Len(v)
    /\ IsSpace(v[i])
    /\ \/ v[i + 1] \in {"#", ";"}
       \/ i + 2 <= Len(v) /\ v[i + 1] = "/" /\ v[i + 2] = "/"

\* the line normaliser as section 4.1 words it
TruncatedAtComment(r) ==
    LET l == Strip(r)
        cuts == {i \in 1..Len(l) : IntroducerAfter(l, i)}
    IN  IF cuts = {} THEN l
        ELSE Strip(SubSeq(l, 1, (CHOOSE i \in cuts : \A j \in cuts : i <= j) - 1))

\* code-point order, a proper prefix first
Precedes(a, b) ==
    \E k \in 1..Len(b) :
        /\ k <= Len(a) + 1
        /\ \A j \in 1..(k - 1) : a[j] = b[j]
        /\ \/ k = Len(a) + 1
           \/ CodePoint(a[k]) < CodePoint(b[k])

StrictlyAscending(xs) == \A i \in 1..(Len(xs) - 1) : Precedes(xs[i], xs[i + 1])

\* the strings any of the texts ts has in collection c
ClassifiedFrom(ts, c) ==
    UNION {ToSet(parse_clash_or_plain(ts[i])[c]) : i \in 1..Len(ts)}

\* the last group the loop went through was written
GroupDone ==
    /\ pc \in {"loop", "done"}
    /\ gi > 1
    /\ IsSourceList(sources[gi - 1].val)

FilesOf(fs, tag) == {f \in fs : f.tag = tag}
RecordsOf(ms, tag) == {m \in ms : m.tag = tag}

\* the positions of the rules array that hold category key
PositionsOf(rules, key) == {p \in 1..Len(rules) : rules[p].key = key}

\* how many strings a written file holds in category key
CountIn(json, key) ==
    IF PositionsOf(json.rules, key) = {} THEN 0
    ELSE Len(json.rules[CHOOSE p \in PositionsOf(json.rules, key) : TRUE].values)

Rank(key) == CHOOSE r \in 1..3 : <<"domain", "domain_suffix", "ip_cidr">>[r] = key

-----------------------------------------------------------------------------
(* Properties *)

\* C1: a normalised entry TYPE,VALUE[,extra...] with TYPE one of DOMAIN,
\* DOMAIN-SUFFIX, IP-CIDR, IP-CIDR6 (any case) and a non-empty VALUE puts the
\* trimmed second field in the collection of its type; when it is the only
\* entry the result holds that one string and nothing else.
C1_TypeValueClassified ==
    Returned =>
        \A i \in 1..Len(Entries(text)) :
            LET line == Entries(text)[i]
            IN  IsRecognisedRule(line) =>
                  /\ ValueField(line) \in
                        ToSet(parsed[CollectionOf(TypeToken(line))])
                  /\ Len(Entries(text)) = 1 =>
                        parsed = Only(CollectionOf(TypeToken(line)),
                                      ValueField(line))

C1_Witness ==
    /\ Returned
    /\ Len(Entries(text)) = 1
    /\ IsRecognisedRule(Entries(text)[1])
    /\ Len(Split(Entries(text)[1], ",")) >= 3
    /\ parsed.cidrs # <<>>

\* C2 as stated: a normalised entry that contains a comma and whose first
\* field is none of the four types adds nothing: alone in a text it leaves
\* all three collections empty.
C2_UnrecognisedTypeDropped ==
    Returned =>
        \A i \in 1..Len(Entries(text)) :
            LET line == Entries(text)[i]
            IN  (/\ Contains(line, ",")
                 /\ TypeToken(line) \notin RecognisedTypes
                 /\ Len(Entries(text)) = 1) => parsed = NoRules

\* C2 as amended: a normalised entry that contains a comma, does not begin
\* with http, and whose first field is none of the four types adds nothing:
\* alone in a text it leaves all three collections empty.
C2_NonHttpUnrecognisedDropped ==
    Returned =>
        \A i \in 1..Len(Entries(text)) :
            LET line == Entries(text)[i]
            IN  (/\ Contains(line, ",")
                 /\ ~StartsWith(line, httpPrefix)
                 /\ TypeToken(line) \notin RecognisedTypes
                 /\ Len(Entries(text)) = 1) => parsed = NoRules

C2_Witness ==
    /\ Returned
    /\ Len(Entries(text)) = 1
    /\ Contains(Entries(text)[1], ",")
    /\ ~StartsWith(Entries(text)[1], httpPrefix)
    /\ TypeToken(Entries(text)[1]) \notin RecognisedTypes
    /\ Contains(ValueField(Entries(text)[1]), ".")
    /\ IsPlainDomain(Entries(text)[1])
    /\ parsed = NoRules

\* C3: a normalised entry without a comma that contains a dot, no whitespace
\* character and no slash is in the suffix collection as it stands; when it
\* is the only entry the other two collections are empty.
C3_BareTokenIsSuffix ==
    Returned =>
        \A i \in 1..Len(Entries(text)) :
            LET line == Entries(text)[i]
            IN  (/\ ~Contains(line, ",")
                 /\ Contains(line, ".")
                 /\ \A k \in 1..Len(line) : ~IsSpace(line[k])
                 /\ ~Contains(line, "/")) =>
                  /\ line \in ToSet(parsed.suffixes)
                  /\ Len(Entries(text)) = 1 => parsed = Only("suffixes", line)

C3_Witness ==
    /\ Returned
    /\ Len(Entries(text)) = 1
    /\ ~Contains(Entries(text)[1], ",")
    /\ parsed = Only("suffixes", Entries(text)[1])

\* C4 as amended: when the text parses as a mapping whose key payload holds
\* a list, the result is classified from that list's elements (each
\* converted to a string and trimmed), not from the lines of the raw text.
C4_PayloadKeyListUsed ==
    (Returned /\ PayloadListFields(text.yaml) # {}) =>
        \E i \in PayloadListFields(text.yaml) :
            parsed = ClassifiedFromEntries(
                        PayloadLines(text.yaml.fields[i][2].items))

C4_Witness ==
    /\ Returned
    /\ PayloadListFields(text.yaml) # {}
    /\ parsed # NoRules
    /\ parsed # ClassifiedFromEntries(text.lines)

\* C4 as stated: when the text parses as a mapping with a key whose value is
\* a list, whatever that key is named, the result is classified from that
\* list's elements.
C4_AnyListKeyUsed ==
    (Returned /\ AnyListFields(text.yaml) # {}) =>
        \E i \in AnyListFields(text.yaml) :
            parsed = ClassifiedFromEntries(
                        PayloadLines(text.yaml.fields[i][2].items))

\* C7: when YAML parsing raised, or the document is no mapping, or it has no
\* payload key holding a list, the call returns the collections classified
\* from the physical lines of the text, all three empty for the empty text.
C7_FallbackToLines ==
    (Returned /\ PayloadListFields(text.yaml) = {}) =>
        /\ parsed = ClassifiedFromEntries(text.lines)
        /\ text.lines = <<>> => parsed = NoRules

C7_Witness ==
    /\ Returned
    /\ text.yaml.kind = "error"
    /\ parsed.domains # <<>>

\* C8: every string of the three returned collections has length at least
\* 1, no leading or trailing whitespace, and no #, ; or // preceded by a
\* whitespace character.
C8_ValuesTrimmedCommentFree ==
    Returned =>
        \A c \in {"domains", "suffixes", "cidrs"} :
            \A k \in 1..Len(parsed[c]) :
                LET v == parsed[c][k]
                IN  /\ Len(v) >= 1
                    /\ ~IsSpace(v[1])
                    /\ ~IsSpace(v[Len(v)])
                    /\ \A i \in 1..Len(v) : ~IntroducerAfter(v, i)

\* C9: _strip_comment returns the trimmed line cut at the first #, ; or //
\* that a whitespace character precedes, trimmed again.
C9_StripTruncatesAtComment ==
    Returned => stripped = TruncatedAtComment(raw)

\* C5: once a group is finished each of its three collections is strictly
\* ascending in code-point order and holds exactly the strings classified
\* into that category from any of the texts fetched for the group, so it
\* depends on the set of texts only, not on their order or repetition.
C5_SortedDistinctUnion ==
    GroupDone =>
        /\ StrictlyAscending(all_domain)
        /\ StrictlyAscending(all_suffix)
        /\ StrictlyAscending(all_cidr)
        /\ ToSet(all_domain) = ClassifiedFrom(fetched, "domains")
        /\ ToSet(all_suffix) = ClassifiedFrom(fetched, "suffixes")
        /\ ToSet(all_cidr) = ClassifiedFrom(fetched, "cidrs")

C5_Witness ==
    /\ GroupDone
    /\ Len(fetched) = 2
    /\ fetched[1] # fetched[2]
    /\ Len(all_suffix) >= 2
    /\ ToSet(parse_clash_or_plain(fetched[1]).suffixes)
         \cap ToSet(parse_clash_or_plain(fetched[2]).suffixes) # {}

\* C6: the file written for a group has version 3 and a rules array with
\* one object per non-empty collection, holding that collection, none for an
\* empty one, in the relative order domain, domain_suffix, ip_cidr.
C6_RulesetShape ==
    GroupDone =>
        /\ FilesOf(files, sources[gi - 1].tag) # {}
        /\ \A f \in FilesOf(files, sources[gi - 1].tag) :
            LET rules == f.json.rules
                HoldsOnce(key, coll) ==
                    IF coll = <<>> THEN PositionsOf(rules, key) = {}
                    ELSE /\ Cardinality(PositionsOf(rules, key)) = 1
                         /\ \A p \in PositionsOf(rules, key) :
                                rules[p].values = coll
            IN  /\ f.json.version = 3
                /\ HoldsOnce("domain", all_domain)
                /\ HoldsOnce("domain_suffix", all_suffix)
                /\ HoldsOnce("ip_cidr", all_cidr)
                /\ \A p \in 1..Len(rules) :
                      /\ rules[p].key \in {"domain", "domain_suffix", "ip_cidr"}
                      /\ rules[p].values # <<>>
                /\ \A p, q \in 1..Len(rules) :
                      p < q => Rank(rules[p].key) < Rank(rules[q].key)
                /\ (all_domain = <<>> /\ all_suffix = <<>> /\ all_cidr = <<>>)
                      => rules = <<>>

C6_Witness ==
    /\ GroupDone
    /\ FilesOf(files, sources[gi - 1].tag) # {}
    /\ all_domain = <<>>
    /\ all_suffix # <<>>
    /\ all_cidr # <<>>

C10_State ==
    /\ index.written =>
          /\ pc = "done"
          /\ \A i \in 1..Len(sources) :
                IsSourceList(sources[i].val) =>
                  /\ Cardinality(FilesOf(files, sources[i].tag)) = 1
                  /\ Cardinality(RecordsOf(index.sets, sources[i].tag)) = 1
                  /\ \A m \in RecordsOf(index.sets, sources[i].tag) :
                     \A f \in FilesOf(files, sources[i].tag) :
                        /\ m.domain = CountIn(f.json, "domain")
                        /\ m.domain_suffix = CountIn(f.json, "domain_suffix")
                        /\ m.ip_cidr = CountIn(f.json, "ip_cidr")
                        /\ m.sources = sources[i].val.urls
    /\ \A i \in 1..Len(sources) :
          ~IsSourceList(sources[i].val) =>
             /\ FilesOf(files, sources[i].tag) = {}
             /\ RecordsOf(meta, sources[i].tag) = {}
             /\ RecordsOf(index.sets, sources[i].tag) = {}
    /\ pc = "failed" => ~index.written

C10_Step ==
    /\ pc # "failed"
    /\ files \subseteq files'
    /\ files' # files =>
          /\ pc = "fetch"
          /\ Len(fetched) = Len(sources[gi].val.urls)
          /\ \A f \in files' \ files : f.tag = sources[gi].tag
    /\ index' # index => (pc = "loop" /\ gi > Len(sources))

\* C10: index.json is written only once every group with a non-empty source
\* list has had all its sources fetched and its file written, and then holds
\* one record per such group, with the counts of that group's file and its
\* configured source list; a group whose sources are empty or no list gets
\* neither file nor record; after a failed fetch nothing more happens, no
\* index is written, and the files written before stay.
C10_SummaryAfterAllGroups == []C10_State /\ [][C10_Step]_vars

C10_Witness ==
    /\ index.written
    /\ Cardinality(index.sets) = 1
    /\ \E m \in index.sets : m.domain_suffix = 2 /\ Len(m.sources) = 2
    /\ \E i \in 1..Len(sources) : ~IsSourceList(sources[i].val)

=============================================================================
